---- MODULE Spec2Model ----
(***************************************************************************)
(* Model of qstrader's IBSimulatedExecutionHandler                         *)
(* (src/qstrader/execution_handler/execution_handler.py).                  *)
(*                                                                         *)
(* The handler holds three references (events_queue, price_handler,        *)
(* compliance) and has one operation, execute_order(event).  The price     *)
(* source, the queue and the compliance recorder are collaborators that    *)
(* live outside the file; they are modelled by their documented contract.  *)
(* Monetary values are Decimals, modelled as coefficient/exponent pairs;   *)
(* Decimal(str(x)) is modelled as formatting to a character sequence       *)
(* followed by parsing it.                                                 *)
(***************************************************************************)
EXTENDS Integers, Sequences, FiniteSets, TLC

\* Largest number of fills the queue may hold before order events stop
\* being offered to the handler.
MaxQueue == 2

Tickers == {"MSFT", "AAPL"}

Dec(c, e) == [coef |-> c, exp |-> e]

\* What the price source may hold for a ticker it has observed: a
\* timestamp with the prices of that moment, or a timestamp alone (the
\* ticker is subscribed and no price has arrived for it yet).
Observations ==
    { [timestamp |-> 1, bid |-> Dec(5020, -2), ask |-> Dec(5025, -2),
       close |-> Dec(10137, -2)],
      [timestamp |-> 2, bid |-> Dec(502, -1), ask |-> Dec(51, 0),
       close |-> Dec(5, -2)],
      [timestamp |-> 3] }

OrderEvent(t, a, q) ==
    [type |-> "ORDER", ticker |-> t, action |-> a, quantity |-> q]

\* "BOT" and "SLD" are the documented actions; "BUY" is a value outside
\* that enum, which the handler does not validate.
Orders ==
    { OrderEvent("MSFT", "BOT", 100), OrderEvent("MSFT", "SLD", 50),
      OrderEvent("AAPL", "BOT", 50),  OrderEvent("AAPL", "BUY", 100) }

\* Events of other kinds that travel on the same queue; execute_order
\* reads only their type.
OtherEvents ==
    { [type |-> k, ticker |-> "", action |-> "", quantity |-> 0] :
        k \in {"TICK", "SIGNAL"} }

Events == Orders \cup OtherEvents

NoEvent == [type |-> "NONE", ticker |-> "", action |-> "", quantity |-> 0]

VARIABLES
    price_handler,  \* [type, tickers]: tickers is a dict ticker -> last row
    compliance,     \* "None" or "attached"
    events_queue,   \* the shared queue: sequence of fill events
    trade_calls,    \* fills handed to compliance.record_trade, in call order
    trade_log,      \* fills the recorder stored (calls that did not fail)
    processed,      \* history: the order events whose lookups succeeded,
                    \* each with the row the price source held at the call
    last            \* the execute_order call that has just ended, if the
                    \* last step was one: [event, outcome, calls]

vars == <<price_handler, compliance, events_queue, trade_calls, trade_log,
          processed, last>>

----------------------------------------------------------------------------
(* str() of a Decimal and Decimal() of a string *)

DigitChars == <<"0", "1", "2", "3", "4", "5", "6", "7", "8", "9">>

RECURSIVE Digits(_)
Digits(n) ==
    IF n < 10 THEN <<DigitChars[n + 1]>>
    ELSE Digits(n \div 10) \o <<DigitChars[(n % 10) + 1]>>

Zeros(n) == [i \in 1..n |-> "0"]

\* Decimal.__str__ in the plain-notation range (exp <= 0, more than -6
\* digits left of the point): the digits of the coefficient with the point
\* placed exp digits from the right, zero-padded on the left.
Str(d) ==
    LET ds == Digits(d.coef)
        dotplace == Len(ds) + d.exp
    IN  IF d.exp = 0 THEN ds
        ELSE IF dotplace <= 0
             THEN <<"0", ".">> \o Zeros(-dotplace) \o ds
             ELSE SubSeq(ds, 1, dotplace) \o <<".">>
                    \o SubSeq(ds, dotplace + 1, Len(ds))

DigitVal(c) == CHOOSE i \in 0..9 : DigitChars[i + 1] = c

RECURSIVE ToInt(_)
ToInt(s) ==
    IF s = <<>> THEN 0
    ELSE 10 * ToInt(SubSeq(s, 1, Len(s) - 1)) + DigitVal(s[Len(s)])

\* Decimal(string): coefficient int(intpart + fracpart), exponent
\* -len(fracpart).
Decimal(s) ==
    LET dots == {i \in 1..Len(s) : s[i] = "."}
    IN  IF dots = {} THEN Dec(ToInt(s), 0)
        ELSE LET p == CHOOSE i \in dots : TRUE
             IN  Dec(ToInt(SubSeq(s, 1, p - 1) \o SubSeq(s, p + 1, Len(s))),
                     -(Len(s) - p))

----------------------------------------------------------------------------
(* Collaborators *)

Raised == [ok |-> FALSE]
Returned(v) == [ok |-> TRUE, value |-> v]

\* Whether the price source holds field f for the ticker.
Holds(ph, ticker, f) ==
    /\ ticker \in DOMAIN ph.tickers
    /\ f \in DOMAIN ph.tickers[ticker]

\* Price source lookups: each fails when the price source holds no such
\* value for the ticker.
get_last_timestamp(ph, ticker) ==
    IF Holds(ph, ticker, "timestamp")
    THEN Returned(ph.tickers[ticker].timestamp) ELSE Raised

get_best_bid_ask(ph, ticker) ==
    IF Holds(ph, ticker, "bid") /\ Holds(ph, ticker, "ask")
    THEN Returned(<<ph.tickers[ticker].bid, ph.tickers[ticker].ask>>)
    ELSE Raised

get_last_close(ph, ticker) ==
    IF Holds(ph, ticker, "close")
    THEN Returned(ph.tickers[ticker].close) ELSE Raised

\* Whether the lookups execute_order makes for the ticker all succeed.
LookupsSucceed(ph, ticker) ==
    /\ Holds(ph, ticker, "timestamp")
    /\ IF ph.type = "TICK_HANDLER"
       THEN Holds(ph, ticker, "bid") /\ Holds(ph, ticker, "ask")
       ELSE Holds(ph, ticker, "close")

FillEvent(timestamp, ticker, action, quantity, exchange, price, commission) ==
    [type |-> "FILL", timestamp |-> timestamp, ticker |-> ticker,
     action |-> action, quantity |-> quantity, exchange |-> exchange,
     price |-> price, commission |-> commission]

\* Queue.put
put(queue, event) == Append(queue, event)

----------------------------------------------------------------------------
(* IBSimulatedExecutionHandler *)

\* Decimal("1.00")
calculate_ib_commission == Decimal(<<"1", ".", "0", "0">>)

\* A tick-oriented fill price with the sides exchanged.
TickFillPrice_Swapped(action, bid, ask) ==
    IF action = "BOT" THEN Decimal(Str(bid)) ELSE Decimal(Str(ask))

\* A tick-oriented fill price that takes "BUY" for a buy as well.
TickFillPrice_BuyAlias(action, bid, ask) ==
    IF action \in {"BOT", "BUY"} THEN Decimal(Str(ask))
    ELSE Decimal(Str(bid))

\* The side branch of the tick-oriented price: the ask for "BOT", the bid
\* for everything else.
TickFillPrice(action, bid, ask) ==
    IF action = "BOT" THEN Decimal(Str(ask)) ELSE Decimal(Str(bid))

\* The tick branch: [ok, value, calls]; calls lists the price source
\* methods invoked.
TickBranch(ph, event) ==
    LET r == get_best_bid_ask(ph, event.ticker)
    IN  IF r.ok
        THEN [ok |-> TRUE, calls |-> <<"get_best_bid_ask">>,
              value |-> TickFillPrice(event.action, r.value[1], r.value[2])]
        ELSE [ok |-> FALSE, calls |-> <<"get_best_bid_ask">>]

\* The bar branch.
BarBranch(ph, event) ==
    LET r == get_last_close(ph, event.ticker)
    IN  IF r.ok
        THEN [ok |-> TRUE, calls |-> <<"get_last_close">>,
              value |-> Decimal(Str(r.value))]
        ELSE [ok |-> FALSE, calls |-> <<"get_last_close">>]

\* A price lookup that takes the tick branch whatever the source's type.
ObtainFillPrice_AlwaysTick(ph, event) == TickBranch(ph, event)

\* "Obtain the fill price".
ObtainFillPrice(ph, event) ==
    IF ph.type = "TICK_HANDLER" THEN TickBranch(ph, event)
    ELSE BarBranch(ph, event)

\* A fill built with the ticker and the action in each other's place.
MakeFill_SwappedArgs(timestamp, event, fill_price) ==
    FillEvent(timestamp, event.action, event.ticker, event.quantity,
              "ARCA", fill_price, calculate_ib_commission)

\* A fill whose commission is one cent per share.
MakeFill_PerShare(timestamp, event, fill_price) ==
    FillEvent(timestamp, event.ticker, event.action, event.quantity,
              "ARCA", fill_price, Dec(event.quantity, -2))

\* The dummy exchange, the commission and the FillEvent built from them.
MakeFill(timestamp, event, fill_price) ==
    LET exchange == "ARCA"
        commission == calculate_ib_commission
    IN  FillEvent(timestamp, event.ticker, event.action, event.quantity,
                  exchange, fill_price, commission)

\* What record_trade does with the recorder: [trade_calls, trade_log,
\* outcome].  record_fails says whether it raises; a call that raises
\* stores nothing.
record_trade(tcalls, tlog, fill_event, record_fails) ==
    [trade_calls |-> Append(tcalls, fill_event),
     trade_log |-> IF record_fails THEN tlog ELSE Append(tlog, fill_event),
     outcome |-> IF record_fails THEN "record_error" ELSE "returned"]

\* A tail that calls record_trade without looking whether a recorder is
\* there: on None the attribute lookup raises.
Publish_NoNoneCheck(comp, queue, tcalls, tlog, fill_event, record_fails) ==
    LET q == put(queue, fill_event)
        rec == record_trade(tcalls, tlog, fill_event, record_fails)
    IN  IF comp # "None"
        THEN [events_queue |-> q, trade_calls |-> rec.trade_calls,
              trade_log |-> rec.trade_log, outcome |-> rec.outcome]
        ELSE [events_queue |-> q, trade_calls |-> tcalls,
              trade_log |-> tlog, outcome |-> "attribute_error"]

\* A tail that records first and publishes after: a recorder failure
\* leaves the fill unpublished.
Publish_RecordFirst(comp, queue, tcalls, tlog, fill_event, record_fails) ==
    LET rec == record_trade(tcalls, tlog, fill_event, record_fails)
    IN  IF comp # "None"
        THEN [events_queue |-> IF record_fails THEN queue
                               ELSE put(queue, fill_event),
              trade_calls |-> rec.trade_calls,
              trade_log |-> rec.trade_log, outcome |-> rec.outcome]
        ELSE [events_queue |-> put(queue, fill_event),
              trade_calls |-> tcalls,
              trade_log |-> tlog, outcome |-> "returned"]

\* A tail that inserts the fill at the head of the queue.
Publish_AtHead(comp, queue, tcalls, tlog, fill_event, record_fails) ==
    LET q == <<fill_event>> \o queue
        rec == record_trade(tcalls, tlog, fill_event, record_fails)
    IN  IF comp # "None"
        THEN [events_queue |-> q, trade_calls |-> rec.trade_calls,
              trade_log |-> rec.trade_log, outcome |-> rec.outcome]
        ELSE [events_queue |-> q, trade_calls |-> tcalls,
              trade_log |-> tlog, outcome |-> "returned"]

\* The tail of execute_order: put the fill on the queue, then hand it to
\* the compliance recorder if there is one.
Publish(comp, queue, tcalls, tlog, fill_event, record_fails) ==
    LET q == put(queue, fill_event)
        rec == record_trade(tcalls, tlog, fill_event, record_fails)
    IN  IF comp # "None"
        THEN [events_queue |-> q, trade_calls |-> rec.trade_calls,
              trade_log |-> rec.trade_log, outcome |-> rec.outcome]
        ELSE [events_queue |-> q, trade_calls |-> tcalls,
              trade_log |-> tlog, outcome |-> "returned"]

\* The result of a call that leaves the queue and the recorder as they are.
Untouched(queue, tcalls, tlog, o, c) ==
    [events_queue |-> queue, trade_calls |-> tcalls, trade_log |-> tlog,
     outcome |-> o, calls |-> c]

\* An order body that puts a fill with a substituted price on the queue
\* when the price lookup fails.
ProcessOrder_DefaultPrice(ph, comp, queue, tcalls, tlog, event, record_fails) ==
    LET ts == get_last_timestamp(ph, event.ticker)
    IN  IF ~ts.ok
        THEN Untouched(queue, tcalls, tlog, "lookup_error",
                       <<"get_last_timestamp">>)
        ELSE LET fp == ObtainFillPrice(ph, event)
                 c == <<"get_last_timestamp">> \o fp.calls
                 r == Publish(comp, queue, tcalls, tlog,
                        MakeFill(ts.value, event,
                                 IF fp.ok THEN fp.value ELSE Dec(0, 0)),
                        record_fails)
             IN  [events_queue |-> r.events_queue,
                  trade_calls |-> r.trade_calls,
                  trade_log |-> r.trade_log,
                  outcome |-> IF fp.ok THEN r.outcome ELSE "lookup_error",
                  calls |-> c]

\* The body of execute_order for an order event: the timestamp lookup, the
\* price lookup, the fill, the put and the recording, in that order; a
\* lookup that raises ends the call there.
ProcessOrder(ph, comp, queue, tcalls, tlog, event, record_fails) ==
    LET ts == get_last_timestamp(ph, event.ticker)
    IN  IF ~ts.ok
        THEN Untouched(queue, tcalls, tlog, "lookup_error",
                       <<"get_last_timestamp">>)
        ELSE LET fp == ObtainFillPrice(ph, event)
                 c == <<"get_last_timestamp">> \o fp.calls
             IN  IF ~fp.ok
                 THEN Untouched(queue, tcalls, tlog, "lookup_error", c)
                 ELSE LET r == Publish(comp, queue, tcalls, tlog,
                                 MakeFill(ts.value, event, fp.value),
                                 record_fails)
                      IN  [events_queue |-> r.events_queue,
                           trade_calls |-> r.trade_calls,
                           trade_log |-> r.trade_log,
                           outcome |-> r.outcome, calls |-> c]

\* An execute_order that treats every event as an order.
execute_order_NoFilter(ph, comp, queue, tcalls, tlog, event, record_fails) ==
    ProcessOrder(ph, comp, queue, tcalls, tlog, event, record_fails)

\* execute_order(event) as a function of the handler's references and the
\* recorder's behaviour: the queue and recorder contents after the call,
\* how the call ended and which price source methods it invoked.
execute_order(ph, comp, queue, tcalls, tlog, event, record_fails) ==
    IF event.type = "ORDER"
    THEN ProcessOrder(ph, comp, queue, tcalls, tlog, event, record_fails)
    ELSE Untouched(queue, tcalls, tlog, "returned", <<>>)

----------------------------------------------------------------------------
(* The state machine *)

\* __init__: a handler over an empty queue, a price source of either kind
\* that has seen nothing yet, and an optional compliance recorder.
Init ==
    /\ price_handler \in
         { [type |-> k, tickers |-> <<>>] :
             k \in {"TICK_HANDLER", "BAR_HANDLER"} }
    /\ compliance \in {"None", "attached"}
    /\ events_queue = <<>>
    /\ trade_calls = <<>>
    /\ trade_log = <<>>
    /\ processed = <<>>
    /\ last = [event |-> NoEvent, outcome |-> "none", calls |-> <<>>]

\* The event loop hands an event to execute_order.
ExecuteOrder ==
    \E event \in Events, record_fails \in BOOLEAN :
        LET resolves == /\ event.type = "ORDER"
                        /\ LookupsSucceed(price_handler, event.ticker)
            r == execute_order(price_handler, compliance, events_queue,
                               trade_calls, trade_log, event, record_fails)
        IN  /\ resolves => Len(events_queue) < MaxQueue
            /\ events_queue' = r.events_queue
            /\ trade_calls' = r.trade_calls
            /\ trade_log' = r.trade_log
            /\ last' = [event |-> event, outcome |-> r.outcome,
                        calls |-> r.calls]
            /\ processed' =
                 IF resolves
                 THEN Append(processed,
                             [event |-> event,
                              row |-> price_handler.tickers[event.ticker]])
                 ELSE processed
            /\ UNCHANGED <<price_handler, compliance>>

\* The price source observes a new row for a ticker.
Stream ==
    \E t \in Tickers, o \in Observations :
        /\ price_handler' =
             [price_handler EXCEPT !.tickers =
                [x \in (DOMAIN price_handler.tickers) \cup {t} |->
                    IF x = t THEN o ELSE price_handler.tickers[x]]]
        /\ last' = [event |-> NoEvent, outcome |-> "none", calls |-> <<>>]
        /\ UNCHANGED <<compliance, events_queue, trade_calls, trade_log,
                       processed>>

Next == ExecuteOrder \/ Stream

Spec == Init /\ [][Next]_vars

----------------------------------------------------------------------------
(* Vocabulary of the properties *)

RECURSIVE Pow10(_)
Pow10(n) == IF n = 0 THEN 1 ELSE 10 * Pow10(n - 1)

\* Numeric equality of two Decimals (Decimal("1.0") == Decimal("1.00")).
DecEq(a, b) ==
    LET m == IF a.exp < b.exp THEN a.exp ELSE b.exp
    IN  a.coef * Pow10(a.exp - m) = b.coef * Pow10(b.exp - m)

RECURSIVE IsSubseq(_, _)
IsSubseq(s, t) ==
    IF s = <<>> THEN TRUE
    ELSE IF t = <<>> THEN FALSE
    ELSE IF Head(s) = Head(t) THEN IsSubseq(Tail(s), Tail(t))
    ELSE IsSubseq(s, Tail(t))

\* The last step was an execute_order call on an order event.
OrderCalled == last.event.type = "ORDER"

\* ... whose lookups succeeded.  The price source is as it was at the call:
\* execute_order does not change it and any later observation clears last.
OrderResolved ==
    OrderCalled /\ LookupsSucceed(price_handler, last.event.ticker)

\* ... one of whose lookups failed.
OrderUnresolved ==
    OrderCalled /\ ~LookupsSucceed(price_handler, last.event.ticker)

\* The last step was an execute_order call on an event of another kind.
OtherCalled == last.event.type \in {"TICK", "SIGNAL"}

\* What the price source held for the ticker of the call.
RowAtCall == price_handler.tickers[last.event.ticker]

\* The fill of the call that has just ended: the queue's entry at the
\* position of the call among the orders whose lookups succeeded.
FillOfCall == events_queue[Len(processed)]

Enqueued == Len(processed) \in 1..Len(events_queue)

IsTick == price_handler.type = "TICK_HANDLER"

\* This step appended exactly one event to the queue.
AppendedOne ==
    /\ Len(events_queue') = Len(events_queue) + 1
    /\ SubSeq(events_queue', 1, Len(events_queue)) = events_queue

----------------------------------------------------------------------------
(* Properties *)

\* C1: against a tick-oriented price source, after execute_order on an
\* order whose lookups succeed, the enqueued fill's price equals the ask
\* the price source held for the ticker at the call if the action is
\* "BOT", and the bid if the action is "SLD".
C1_TickPriceBySide ==
    (IsTick /\ OrderResolved) =>
        /\ Enqueued
        /\ last.event.action = "BOT" => DecEq(FillOfCall.price, RowAtCall.ask)
        /\ last.event.action = "SLD" => DecEq(FillOfCall.price, RowAtCall.bid)

\* A sell order has just been filled from the second observation, after an
\* earlier fill.
C1_Witness ==
    /\ IsTick /\ OrderResolved /\ last.event.action = "SLD"
    /\ RowAtCall.timestamp = 2 /\ Len(events_queue) = 2

\* C2: against a bar-oriented price source, after execute_order on an order
\* whose lookups succeed, the enqueued fill's price equals the last close
\* held for the ticker, whatever the side, and get_best_bid_ask was not
\* called.
C2_BarPriceIsClose ==
    (~IsTick /\ OrderResolved) =>
        /\ Enqueued
        /\ DecEq(FillOfCall.price, RowAtCall.close)
        /\ \A i \in 1..Len(last.calls) : last.calls[i] # "get_best_bid_ask"

C2_Witness ==
    /\ ~IsTick /\ OrderResolved /\ last.event.action = "BOT"
    /\ RowAtCall.close = Dec(5, -2)

\* C3: after execute_order on an order whose lookups succeed, the enqueued
\* fill carries the order's ticker, action and quantity and the timestamp
\* the price source held for that ticker at the call.
C3_FillCopiesOrder ==
    OrderResolved =>
        /\ Enqueued
        /\ FillOfCall.ticker = last.event.ticker
        /\ FillOfCall.action = last.event.action
        /\ FillOfCall.quantity = last.event.quantity
        /\ FillOfCall.timestamp = RowAtCall.timestamp

C3_Witness ==
    /\ OrderResolved /\ last.event = OrderEvent("AAPL", "BUY", 100)
    /\ RowAtCall.timestamp = 2 /\ Len(events_queue) = 2
    /\ events_queue[1].timestamp = 1

\* C4: a call on an order whose lookups succeed appends exactly one fill to
\* the queue; a call on an event of another kind returns normally and
\* leaves the queue as it was; the queue always holds as many fills as
\* orders had their lookups succeed.
C4_OneFillPerOrder ==
    /\ [](Len(events_queue) = Len(processed))
    /\ [][/\ OrderResolved' =>
               AppendedOne /\ events_queue'[Len(events_queue')].type = "FILL"
          /\ OtherCalled' =>
               last'.outcome = "returned" /\ events_queue' = events_queue
         ]_vars

\* A non-order event has just been ignored with two fills on the queue.
C4_Witness ==
    /\ OtherCalled /\ last.outcome = "returned" /\ Len(events_queue) = 2

\* C5: a call on an order for which a lookup fails ends with that lookup
\* error and leaves the queue and the recorder as they were.
C5_LookupFailurePublishesNothing ==
    [][OrderUnresolved' =>
          /\ last'.outcome = "lookup_error"
          /\ events_queue' = events_queue
          /\ trade_calls' = trade_calls
          /\ trade_log' = trade_log
      ]_vars

\* The price lookup has just failed after the timestamp lookup succeeded,
\* with a recorder attached and a fill already published.
C5_Witness ==
    /\ OrderUnresolved /\ last.outcome = "lookup_error"
    /\ Len(last.calls) = 2
    /\ compliance = "attached" /\ Len(events_queue) = 1

\* C6: with a recorder attached, record_trade has been called once per fill
\* on the queue, with that very fill; with none, nothing reaches a recorder
\* and a call whose lookups succeed returns normally.
C6_RecorderSeesEveryFill ==
    /\ compliance = "attached" => trade_calls = events_queue
    /\ compliance = "None" =>
          /\ trade_calls = <<>> /\ trade_log = <<>>
          /\ OrderResolved => last.outcome = "returned"

C6_Witness ==
    /\ compliance = "attached" /\ Len(trade_calls) = 2
    /\ trade_calls[1] # trade_calls[2]

\* C7: when record_trade fails the call ends with that failure and the fill
\* of the call is on the queue all the same; the recorder's log is always a
\* subsequence of the queue.
C7_PublishedBeforeRecorded ==
    /\ [](IsSubseq(trade_log, events_queue)
            /\ Len(trade_log) <= Len(events_queue))
    /\ [][last'.outcome = "record_error" =>
            /\ AppendedOne
            /\ events_queue'[Len(events_queue')].ticker = last'.event.ticker
            /\ events_queue'[Len(events_queue')].action = last'.event.action
            /\ trade_log' = trade_log
         ]_vars

\* record_trade has just failed on the second fill, the first being logged.
C7_Witness ==
    /\ last.outcome = "record_error" /\ Len(events_queue) = 2
    /\ trade_log = <<events_queue[1]>>

\* C8: the i-th fill on the queue is the fill of the i-th order whose
\* lookups succeeded, and it is there as soon as that call has ended.
C8_FillsInOrder ==
    /\ Len(events_queue) = Len(processed)
    /\ \A i \in 1..Len(processed) :
          i <= Len(events_queue) =>
            /\ events_queue[i].ticker = processed[i].event.ticker
            /\ events_queue[i].action = processed[i].event.action
            /\ events_queue[i].quantity = processed[i].event.quantity
            /\ events_queue[i].timestamp = processed[i].row.timestamp

C8_Witness ==
    /\ Len(processed) = 2
    /\ processed[1].event = OrderEvent("MSFT", "SLD", 50)
    /\ processed[2].event = OrderEvent("AAPL", "BOT", 50)
    /\ events_queue[1].ticker = "MSFT"

\* C9: every fill on the queue carries the commission 1.00.
C9_FlatCommission ==
    \A i \in 1..Len(events_queue) :
        DecEq(events_queue[i].commission, Dec(100, -2))

\* Two fills of different quantity, action, ticker and price.
C9_Witness ==
    /\ Len(events_queue) = 2
    /\ events_queue[1].quantity # events_queue[2].quantity
    /\ events_queue[1].action # events_queue[2].action
    /\ events_queue[1].ticker # events_queue[2].ticker
    /\ ~DecEq(events_queue[1].price, events_queue[2].price)

\* C10: against a tick-oriented price source an order is filled at the ask
\* exactly when its action is "BOT"; with any other action, "BUY" included,
\* the call returns a published fill priced at the bid.
C10_OnlyBotTakesAsk ==
    (IsTick /\ OrderResolved) =>
        /\ Enqueued
        /\ last.outcome \in {"returned", "record_error"}
        /\ IF last.event.action = "BOT"
           THEN DecEq(FillOfCall.price, RowAtCall.ask)
           ELSE DecEq(FillOfCall.price, RowAtCall.bid)

C10_Witness ==
    /\ IsTick /\ OrderResolved /\ last.event.action = "BUY"
    /\ last.outcome = "returned"

====
